---- MODULE Spec2Model ----
(***************************************************************************)
(* A model of pybnn's Bohamiann (src/pybnn/bohamiann.py): the constructor, *)
(* the train loop with its burn-in / keep_every sampling cadence, and      *)
(* predict with its ensemble aggregation.                                  *)
(*                                                                         *)
(* Representation choices:                                                 *)
(*  - real numbers are exact fractions <<n, d>> with d > 0, in lowest      *)
(*    terms;                                                               *)
(*  - a log-variance is an integer k standing for k * ln 2, so that        *)
(*    np.exp is exactly 2^k;                                               *)
(*  - the model parameters are identified by the train call that created   *)
(*    them (a tag that alternates from one call to the next) and the       *)
(*    number of sampler updates applied to them;                           *)
(*  - an array is represented by what the code reads of it: x arrays by    *)
(*    their shape, y_train by its values.                                  *)
(***************************************************************************)
EXTENDS Integers, Sequences, FiniteSets, TLC

(* ------------------------------ bounds --------------------------------- *)
MaxSteps == 4
MaxKeep == 2
MaxBurn == 1
MaxDim == 3
MaxSnap == 3
MaxMean == 3

(* ------------------------- exact arithmetic ---------------------------- *)
Abs(a) == IF a < 0 THEN -a ELSE a

RECURSIVE GCD(_, _)
GCD(a, b) == IF b = 0 THEN a ELSE GCD(b, a % b)

Frac(n, d) ==
    LET g == GCD(Abs(n), d) IN <<n \div g, d \div g>>

RInt(n) == <<n, 1>>
RAdd(p, q) == Frac(p[1] * q[2] + q[1] * p[2], p[2] * q[2])
RSub(p, q) == Frac(p[1] * q[2] - q[1] * p[2], p[2] * q[2])
RMul(p, q) == Frac(p[1] * q[1], p[2] * q[2])
RDivInt(p, n) == Frac(p[1], p[2] * n)

RECURSIVE Pow2(_)
Pow2(k) == IF k = 0 THEN 1 ELSE 2 * Pow2(k - 1)

\* np.exp on a log-variance k * ln 2
NpExp(k) == IF k >= 0 THEN <<Pow2(k), 1>> ELSE <<1, Pow2(-k)>>

RECURSIVE RSum(_)
RSum(s) == IF s = <<>> THEN RInt(0) ELSE RAdd(s[1], RSum(Tail(s)))

\* np.mean(a, axis=0) over the snapshot axis, for one test point
NpMean(s) == RDivInt(RSum(s), Len(s))

\* np.std: the root of the (not Bessel-corrected) variance, where it is exact
RSqrt(q) ==
    CHOOSE r \in {<<a, b>> : a \in 0..8, b \in 1..4} :
        /\ GCD(r[1], r[2]) = 1
        /\ RMul(r, r) = q

(* ------------------ pybnn.util.normalization (contract) ---------------- *)
ColumnMean(v) == NpMean([i \in DOMAIN v |-> RInt(v[i])])

ColumnStd(v) ==
    LET m == ColumnMean(v)
        dev == [i \in DOMAIN v |-> RMul(RSub(RInt(v[i]), m), RSub(RInt(v[i]), m))]
    IN RSqrt(NpMean(dev))

zero_mean_unit_var_unnormalization(data, mean, std) == RAdd(RMul(data, std), mean)

\* numpy broadcasting of a trailing axis of length a against one of length b;
\* 0 stands for "operands could not be broadcast together"
Broadcast(a, b) ==
    IF a = b THEN a
    ELSE IF a = 1 THEN b
    ELSE IF b = 1 THEN a
    ELSE 0

(* ------------------------------- inputs -------------------------------- *)
\* y_train vectors (N = 2 or 4 rows) with a non-zero, rational std
YTrains == { <<1, 3>>, <<2, 2, 8, 8>> }

\* the statistics zero_mean_unit_var_normalization returns for each y_train
YStats == [y \in YTrains |-> [mean |-> ColumnMean(y), std |-> ColumnStd(y)]]

\* batch_size arguments of the constructor: an invalid and a valid one
BatchSizes == {0, 1}

\* x_train shapes: (N, D), or the 1-D shape (N,)
XShapes(n) ==
    {[ndim |-> 2, n |-> n, d |-> d] : d \in 1..MaxDim} \cup {[ndim |-> 1, n |-> n, d |-> 0]}

\* x_test shapes: (1, D)
XTests == {[ndim |-> 2, n |-> 1, d |-> d] : d \in 1..MaxDim}

\* (num_steps, keep_every, num_burn_in_steps): a grid and the concrete runs
\* of the cadence examples
ExampleArgs == { <<150, 10, 100>>, <<2000, 50, 500>> }

TrainArgs == ((0..MaxSteps) \X (1..MaxKeep) \X (0..MaxBurn)) \cup ExampleArgs

(* -------------------------------- state -------------------------------- *)
VARIABLES
    obj,                \* "none" | "live" | "failed": the Bohamiann object
    batch_size,
    normalize_input,
    normalize_output,
    is_trained,
    sampled_weights,    \* the snapshot store
    x_mean, x_std,      \* [set, d]: attribute set?, one entry per column
    y_mean, y_std,      \* [set, val]
    model,              \* [exists, in_dim, weights]
    pc,                 \* "idle" | "loop" (inside train) | "aggregate" (inside
                        \* predict, network_outputs built)
    step,               \* loop index of the next iteration
    num_steps, keep_every, num_burn_in_steps,
                        \* arguments of the most recent call that reached the loop
    num_datapoints,
    batch_idx,          \* index, within a pass over the data, of the next batch
    run,                \* tag of the most recent train call (0 or 1)
    recorded_steps,     \* history: step index at which each snapshot was taken
    train_status,       \* outcome of the most recent train call
    network_outputs,    \* predict's array of per-snapshot (mean, log-variance)
    result              \* outcome of the most recent predict call: the exception
                        \* or the returned values, the width of its x_test, and
                        \* the moments before un-normalization

vars == <<obj, batch_size, normalize_input, normalize_output, is_trained,
          sampled_weights, x_mean, x_std, y_mean, y_std, model, pc, step,
          num_steps, keep_every, num_burn_in_steps, num_datapoints, batch_idx, run,
          recorded_steps, train_status, network_outputs, result>>

NoWeights == [run |-> 0, updates |-> 0]
NoModel == [exists |-> FALSE, in_dim |-> 0, weights |-> NoWeights]
NoXStat == [set |-> FALSE, d |-> 0]
NoYStat == [set |-> FALSE, val |-> RInt(0)]
NoResult ==
    [status |-> "none", x_dim |-> 0, arity |-> 0, raw_mean |-> RInt(0), raw_variance |-> RInt(0),
     mean |-> RInt(0), variance |-> RInt(0), individual |-> <<>>]

Init ==
    /\ obj = "none"
    /\ batch_size = 0
    /\ normalize_input = TRUE
    /\ normalize_output = TRUE
    /\ is_trained = FALSE
    /\ sampled_weights = <<>>
    /\ x_mean = NoXStat
    /\ x_std = NoXStat
    /\ y_mean = NoYStat
    /\ y_std = NoYStat
    /\ model = NoModel
    /\ pc = "idle"
    /\ step = 0
    /\ num_steps = 0
    /\ keep_every = 1
    /\ num_burn_in_steps = 0
    /\ num_datapoints = 0
    /\ batch_idx = 0
    /\ run = 0
    /\ recorded_steps = <<>>
    /\ train_status = "none"
    /\ network_outputs = <<>>
    /\ result = NoResult

(* ----------------------------- __init__ -------------------------------- *)
\* assert batch_size >= 1
ValidBatchSize_any(bs) == bs >= 0

ValidBatchSize(bs) == bs >= 1

Construct ==
    /\ obj = "none"
    /\ \E bs \in BatchSizes, ni \in BOOLEAN, no \in BOOLEAN :
        IF ValidBatchSize(bs)
        THEN /\ obj' = "live"
             /\ batch_size' = bs
             /\ normalize_input' = ni
             /\ normalize_output' = no
        ELSE /\ obj' = "failed"     \* AssertionError: no object
             /\ UNCHANGED <<batch_size, normalize_input, normalize_output>>
    /\ is_trained' = FALSE
    /\ sampled_weights' = <<>>
    /\ UNCHANGED <<x_mean, x_std, y_mean, y_std, model, pc, step, num_steps,
                   keep_every, num_burn_in_steps, num_datapoints, batch_idx, run,
                   recorded_steps, train_status, network_outputs, result>>

(* ------------------------------- train --------------------------------- *)
\* self.sampled_weights.clear()
ClearedStore_keep(store) == store

ClearedStore(store) == <<>>

\* the snapshot decision of a loop iteration
KeepSample_geq(s, burn, keep) == s >= burn /\ (s - burn) % keep = 0

KeepSample_noburn(s, burn, keep) == (s - burn) % keep = 0

KeepSample(s, burn, keep) == s > burn /\ (s - burn) % keep = 0

\* self.network_weights (getter): a copy of the current parameter values
network_weights(m) == m.weights

\* weights = self.network_weights comes after sampler.step() in the iteration:
\* it reads the parameters as updated (`after`), not as they were (`before`)
ParamsAtSnapshot_before(before, after) == before

ParamsAtSnapshot(before, after) == after

\* self.sampled_weights.append(weights): weights is a fresh copy, so the
\* entries already stored keep their values
AppendSnapshot_shared(store, w) == [i \in 1..(Len(store) + 1) |-> w]

AppendSnapshot(store, w) == Append(store, w)

\* sampler.step(): one in-place update of the parameters
SamplerStep(m) == [m EXCEPT !.weights.updates = @ + 1]

\* DataLoader(TensorDataset(x, y), batch_size): batches in one pass
NumBatches(n, bs) == (n + bs - 1) \div bs

\* infinite_dataloader: after the last batch of a pass comes the first again
NextBatch(i, nb) == (i + 1) % nb

\* islice(enumerate(train_loader), num_steps): is there an iteration `s`?
LoopContinues_leq(s, n) == s <= n

LoopContinues_short(s, n) == s + 1 < n

LoopContinues(s, n) == s < n

\* train assigns is_trained only after its loop: entering train keeps the flag
TrainedAtStart_reset(flag) == FALSE

TrainedAtStart(flag) == flag

TrainStart(x, y, args) ==
    /\ obj = "live"
    /\ pc = "idle"
    /\ run' = 1 - run
    /\ sampled_weights' = ClearedStore(sampled_weights)
    /\ recorded_steps' = <<>>
    /\ network_outputs' = <<>>
    /\ result' = NoResult
    /\ is_trained' = TrainedAtStart(is_trained)
    /\ UNCHANGED <<obj, batch_size, normalize_input, normalize_output>>
    /\ IF x.ndim # 2
       THEN \* num_datapoints, input_dimensionality = x_train.shape
            /\ train_status' = "ValueError"
            /\ pc' = "idle"
            /\ UNCHANGED <<x_mean, x_std, y_mean, y_std, model, num_datapoints,
                           num_steps, keep_every, num_burn_in_steps, step, batch_idx>>
       ELSE /\ num_datapoints' = x.n
            /\ IF normalize_input
               THEN /\ x_mean' = [set |-> TRUE, d |-> x.d]
                    /\ x_std' = [set |-> TRUE, d |-> x.d]
               ELSE UNCHANGED <<x_mean, x_std>>
            /\ IF ~normalize_input
               THEN \* x_train_ is read before assignment
                    /\ train_status' = "UnboundLocalError"
                    /\ pc' = "idle"
                    /\ UNCHANGED <<y_mean, y_std, model, num_steps, keep_every,
                                   num_burn_in_steps, step, batch_idx>>
               ELSE IF ~normalize_output
               THEN \* y_train_ is read before assignment
                    /\ train_status' = "UnboundLocalError"
                    /\ pc' = "idle"
                    /\ UNCHANGED <<y_mean, y_std, model, num_steps, keep_every,
                                   num_burn_in_steps, step, batch_idx>>
               ELSE /\ y_mean' = [set |-> TRUE, val |-> YStats[y].mean]
                    /\ y_std' = [set |-> TRUE, val |-> YStats[y].std]
                    /\ num_steps' = args[1]
                    /\ keep_every' = args[2]
                    /\ num_burn_in_steps' = args[3]
                    /\ step' = 0
                    /\ batch_idx' = 0
                    /\ model' = [exists |-> TRUE, in_dim |-> x.d,
                                 weights |-> [run |-> run', updates |-> 0]]
                    /\ train_status' = "running"
                    /\ pc' = "loop"

TrainIter ==
    /\ pc = "loop"
    /\ LoopContinues(step, num_steps)
    /\ batch_idx' = NextBatch(batch_idx, NumBatches(num_datapoints, batch_size))
    /\ model' = SamplerStep(model)
    /\ IF KeepSample(step, num_burn_in_steps, keep_every)
       THEN /\ sampled_weights' =
                  AppendSnapshot(sampled_weights,
                                 network_weights(ParamsAtSnapshot(model, model')))
            /\ recorded_steps' = Append(recorded_steps, step)
       ELSE UNCHANGED <<sampled_weights, recorded_steps>>
    /\ step' = step + 1
    /\ UNCHANGED <<obj, batch_size, normalize_input, normalize_output, is_trained,
                   x_mean, x_std, y_mean, y_std, pc, num_steps, keep_every,
                   num_burn_in_steps, num_datapoints, run, train_status,
                   network_outputs, result>>

TrainFinish ==
    /\ pc = "loop"
    /\ ~LoopContinues(step, num_steps)
    /\ is_trained' = TRUE
    /\ train_status' = "ok"
    /\ pc' = "idle"
    /\ UNCHANGED <<obj, batch_size, normalize_input, normalize_output,
                   sampled_weights, x_mean, x_std, y_mean, y_std, model, step,
                   num_steps, keep_every, num_burn_in_steps, num_datapoints, batch_idx, run,
                   recorded_steps, network_outputs, result>>

Train ==
    \E y \in YTrains : \E x \in XShapes(Len(y)) : \E args \in TrainArgs :
        TrainStart(x, y, args)

(* ------------------------------ predict -------------------------------- *)
\* self.model(x) with the parameters w: the (mean, log-variance) row for the
\* test point
NetOut(w) == <<RInt(w.updates % (MaxMean + 1)), (w.updates % 3) - 1>>

\* mean_prediction = np.mean(network_outputs[:, :, 0], axis=0)
EnsembleMean(outs) == NpMean([i \in DOMAIN outs |-> outs[i][1]])

\* the commented-out alternative: the spread of the means alone
EnsembleVariance_naive(outs) ==
    LET m == EnsembleMean(outs)
    IN NpMean([i \in DOMAIN outs |->
                  RMul(RSub(outs[i][1], m), RSub(outs[i][1], m))])

\* variance_prediction = np.mean(col0 ** 2 + np.exp(col1), axis=0) - mean ** 2
EnsembleVariance(outs) ==
    LET m == EnsembleMean(outs)
    IN RSub(NpMean([i \in DOMAIN outs |->
                       RAdd(RMul(outs[i][1], outs[i][1]), NpExp(outs[i][2]))]),
            RMul(m, m))

\* variance_prediction *= self.y_std ** 2
ScaleVariance_linear(v, std) == RMul(v, std)

ScaleVariance(v, std) == RMul(v, RMul(std, std))

\* network_outputs[:, :, 0] after the loop that un-normalizes network_outputs[i]
\* in place when normalize_output is set
IndividualPredictions_raw(outs, norm_out, ymean, ystd) ==
    [i \in DOMAIN outs |-> outs[i][1]]

IndividualPredictions(outs, norm_out, ymean, ystd) ==
    [i \in DOMAIN outs |->
        IF norm_out
        THEN zero_mean_unit_var_unnormalization(outs[i][1], ymean, ystd)
        ELSE outs[i][1]]

\* The part of predict after network_outputs is built (np.array of the
\* per-snapshot outputs).  The in-place un-normalization of network_outputs
\* rewrites both columns; only column 0 is read afterwards.
PredictAggregate(outs, norm_out, ymean, ystd, indiv) ==
    IF outs = <<>>
    THEN \* np.array([]) has one axis: network_outputs[:, :, 0] raises
         [NoResult EXCEPT !.status = "IndexError"]
    ELSE LET m == EnsembleMean(outs)
             v == EnsembleVariance(outs)
             col0 == IndividualPredictions(outs, norm_out, ymean, ystd)
         IN [status |-> "ok",
             x_dim |-> 0,
             arity |-> IF indiv THEN 3 ELSE 2,
             raw_mean |-> m,
             raw_variance |-> v,
             mean |-> IF norm_out
                      THEN zero_mean_unit_var_unnormalization(m, ymean, ystd)
                      ELSE m,
             variance |-> IF norm_out THEN ScaleVariance(v, ystd) ELSE v,
             individual |-> IF indiv THEN col0 ELSE <<>>]

\* self.network_weights = weights (setter): the values are copied into the
\* parameters of the one live model
SetWeights(m, w) == [m EXCEPT !.weights = w]

\* network_predict assigns the snapshot and then runs the forward pass: the
\* pass reads the parameters just assigned, not those the model held before
ForwardParams_prev(prev, assigned) == prev

ForwardParams(prev, assigned) == assigned

\* zero_mean_unit_var_normalization(x_test, self.x_mean, self.x_std): the
\* stored statistics are passed in and the returned ones are discarded
StatsAfterPredict_refit(stat, xt) == [set |-> TRUE, d |-> xt.d]

StatsAfterPredict(stat, xt) == stat

Raised(name, xt) == [NoResult EXCEPT !.status = name, !.x_dim = xt.d]

Predict(xt, indiv) ==
    /\ obj = "live"
    /\ pc = "idle"
    /\ UNCHANGED <<obj, batch_size, normalize_input, normalize_output, is_trained,
                   sampled_weights, y_mean, y_std, pc, step,
                   num_steps, keep_every, num_burn_in_steps, num_datapoints, batch_idx, run,
                   recorded_steps, train_status>>
    /\ IF normalize_input /\ x_mean.set
       THEN /\ x_mean' = StatsAfterPredict(x_mean, xt)
            /\ x_std' = StatsAfterPredict(x_std, xt)
       ELSE UNCHANGED <<x_mean, x_std>>
    /\ IF normalize_input /\ ~x_mean.set
       THEN \* self.x_mean does not exist
            /\ result' = Raised("AttributeError", xt)
            /\ network_outputs' = <<>>
            /\ UNCHANGED model
       ELSE IF normalize_input /\ Broadcast(xt.d, x_mean.d) = 0
       THEN \* (x_test - x_mean) / x_std cannot be broadcast
            /\ result' = Raised("ValueError", xt)
            /\ network_outputs' = <<>>
            /\ UNCHANGED model
       ELSE LET xd == IF normalize_input THEN Broadcast(xt.d, x_mean.d) ELSE xt.d
            IN IF sampled_weights # <<>> /\ model.in_dim # xd
               THEN \* the first network_predict assigns the first snapshot,
                    \* then the forward pass rejects the input's width
                    /\ result' = Raised("RuntimeError", xt)
                    /\ network_outputs' = <<>>
                    /\ model' = SetWeights(model, sampled_weights[1])
               ELSE /\ network_outputs' =
                           [i \in DOMAIN sampled_weights |->
                               NetOut(ForwardParams(
                                   IF i = 1 THEN model.weights ELSE sampled_weights[i - 1],
                                   sampled_weights[i]))]
                    /\ model' = IF sampled_weights = <<>> THEN model
                                ELSE SetWeights(model,
                                                sampled_weights[Len(sampled_weights)])
                    /\ result' = [PredictAggregate(network_outputs', normalize_output,
                                                   y_mean.val, y_std.val, indiv)
                                     EXCEPT !.x_dim = xt.d]

PredictCall == \E xt \in XTests, indiv \in BOOLEAN : Predict(xt, indiv)

Next ==
    \/ Construct
    \/ Train
    \/ TrainIter
    \/ TrainFinish
    \/ PredictCall

Spec == Init /\ [][Next]_vars

(* --------- the aggregation of predict on hand-built outputs ------------ *)
\* per-snapshot rows (mean, log-variance) for one test point
OutputRows == {<<RInt(m), l>> : m \in 0..MaxMean, l \in -1..1}

OutputArrays == UNION {[1..n -> OutputRows] : n \in 0..MaxSnap}

\* output statistics as train stores them, for a few y_train vectors
OutputStats ==
    {[mean |-> ColumnMean(y), std |-> ColumnStd(y)] :
        y \in YTrains \cup { <<0, 4>>, <<1, 2>> }}

InitAggregate ==
    /\ obj = "live"
    /\ batch_size = 1
    /\ normalize_input = TRUE
    /\ normalize_output \in BOOLEAN
    /\ is_trained = FALSE
    /\ sampled_weights = <<>>
    /\ x_mean = NoXStat
    /\ x_std = NoXStat
    /\ \E st \in OutputStats :
          IF normalize_output
          THEN y_mean = [set |-> TRUE, val |-> st.mean] /\ y_std = [set |-> TRUE, val |-> st.std]
          ELSE y_mean = NoYStat /\ y_std = NoYStat
    /\ model = NoModel
    /\ pc = "aggregate"
    /\ step = 0
    /\ num_steps = 0
    /\ keep_every = 1
    /\ num_burn_in_steps = 0
    /\ num_datapoints = 0
    /\ batch_idx = 0
    /\ run = 0
    /\ recorded_steps = <<>>
    /\ train_status = "none"
    /\ network_outputs \in OutputArrays
    /\ result = NoResult

Aggregate ==
    /\ pc = "aggregate"
    /\ \E indiv \in BOOLEAN :
          result' = PredictAggregate(network_outputs, normalize_output,
                                     y_mean.val, y_std.val, indiv)
    /\ pc' = "idle"
    /\ UNCHANGED <<obj, batch_size, normalize_input, normalize_output, is_trained,
                   sampled_weights, x_mean, x_std, y_mean, y_std, model, step,
                   num_steps, keep_every, num_burn_in_steps, num_datapoints, batch_idx, run,
                   recorded_steps, train_status, network_outputs>>

NextAggregate == Aggregate

SpecAggregate == InitAggregate /\ [][NextAggregate]_vars

(* ------------------------------ claims --------------------------------- *)
Completed == pc = "idle" /\ train_status = "ok"

C2_DocstringCount ==
    Completed => Len(sampled_weights) = num_steps \div keep_every

\* C3: at every point of a train call, every snapshot in the store was
\* recorded in a loop iteration whose step index s has s > num_burn_in_steps
\* and (s - num_burn_in_steps) mod keep_every = 0; none at or before burn-in.
C3_NoSnapshotInBurnIn ==
    /\ Len(recorded_steps) = Len(sampled_weights)
    /\ \A i \in DOMAIN recorded_steps :
          /\ recorded_steps[i] > num_burn_in_steps
          /\ (recorded_steps[i] - num_burn_in_steps) % keep_every = 0
          /\ recorded_steps[i] < step

C3_Witness ==
    /\ pc = "loop"
    /\ num_burn_in_steps = 1
    /\ keep_every = 2
    /\ step = 4
    /\ recorded_steps = <<3>>

\* C4: predict called with is_trained false or with an empty snapshot store
\* fails with a "not trained" error raised by a check of the trained state.
C4_NotTrainedSignal ==
    (pc = "idle" /\ result.status # "none" /\ (~is_trained \/ sampled_weights = <<>>))
        => result.status = "NotTrainedError"

\* C5: with normalize_input false (or normalize_output false) a train call on
\* well-formed data stores no statistics for that side, runs all num_steps
\* iterations and ends with is_trained true.
C5_TrainWithoutNormalization ==
    (pc = "idle" /\ obj = "live" /\ (~normalize_input \/ ~normalize_output)
        /\ train_status \notin {"none", "ValueError"})
        => /\ train_status = "ok"
           /\ is_trained
           /\ ~normalize_input => ~x_mean.set
           /\ ~normalize_output => ~y_mean.set

\* C6 as stated: between calls, is_trained = true implies that the snapshot
\* store is non-empty.
C6_TrainedImpliesSnapshots ==
    (pc = "idle" /\ is_trained) => sampled_weights # <<>>

\* C6 (amended): between calls the store is non-empty exactly when the most
\* recent train call completed with num_steps > num_burn_in_steps +
\* keep_every; a completed call always leaves is_trained true, so is_trained
\* holds with an empty store after a completed call with fewer steps or after
\* a later call that raised.
C6_TrainedStore ==
    pc = "idle" =>
        /\ train_status = "ok" => is_trained
        /\ sampled_weights # <<>>
              <=> (train_status = "ok"
                   /\ num_steps > num_burn_in_steps + keep_every)
        /\ is_trained => model.exists

C6_Witness ==
    /\ pc = "idle"
    /\ is_trained
    /\ train_status = "ok"
    /\ num_steps = num_burn_in_steps + keep_every + 1
    /\ Len(sampled_weights) = 1

\* C7: train clears the store first, so at every point the store holds exactly
\* the snapshots recorded so far by the most recent train call, in sampling
\* order: the i-th entry is the copy taken at step B + i*K of that call (after
\* that iteration's sampler update), no qualifying step is missing and nothing
\* of an earlier call remains.
C7_StoreIsLatestRun ==
    /\ \A i \in DOMAIN sampled_weights :
          /\ sampled_weights[i].run = run
          /\ sampled_weights[i].updates = num_burn_in_steps + i * keep_every + 1
    /\ train_status \in {"running", "ok"}
          => num_burn_in_steps + (Len(sampled_weights) + 1) * keep_every >= step
    /\ train_status \notin {"running", "ok"} => sampled_weights = <<>>

C7_Witness ==
    /\ is_trained
    /\ pc = "loop"
    /\ run = 0
    /\ Len(sampled_weights) = 2
    /\ step = num_steps

\* C8: predict with an x_test whose width differs from the width D of the
\* training inputs raises a dimensionality-mismatch error and returns nothing.
C8_DimensionMismatchRejected ==
    (pc = "idle" /\ result.status # "none" /\ sampled_weights # <<>>
        /\ result.x_dim # model.in_dim)
        => result.status \in {"ValueError", "RuntimeError"}

RECURSIVE ISum(_, _)
ISum(f, n) == IF n = 0 THEN 0 ELSE f[n] + ISum(f, n - 1)

\* C9: for a non-empty array of per-snapshot outputs (m_i, l_i), the ensemble
\* mean before un-normalization is (sum of m_i) / n and the ensemble variance
\* is (sum of (m_i^2 + exp(l_i))) / n - mean^2; means {1, 3} with
\* log-variances {0, 0} give mean 2 and variance 2.
C9_EnsembleMoments ==
    result.status = "ok" =>
        LET n == Len(network_outputs)
            s1 == ISum([i \in 1..n |-> network_outputs[i][1][1]], n)
            \* twice the sum of m_i^2 + 2^(l_i), an integer for l_i >= -1
            t2 == ISum([i \in 1..n |->
                          2 * network_outputs[i][1][1] * network_outputs[i][1][1]
                          + Pow2(network_outputs[i][2] + 1)], n)
        IN /\ n >= 1
           /\ result.raw_mean[1] * n = s1 * result.raw_mean[2]
           /\ result.raw_variance[1] * 2 * n * n
                 = (n * t2 - 2 * s1 * s1) * result.raw_variance[2]
           /\ network_outputs = << <<RInt(1), 0>>, <<RInt(3), 0>> >>
                 => result.raw_mean = RInt(2) /\ result.raw_variance = RInt(2)

C9_Witness ==
    /\ result.status = "ok"
    /\ network_outputs = << <<RInt(1), 0>>, <<RInt(3), 0>> >>
    /\ result.raw_mean = RInt(2)
    /\ result.raw_variance = RInt(2)

\* C10: with normalize_output true predict returns mean = raw mean * y_std +
\* y_mean and variance = raw variance * y_std^2 (no shift); with
\* normalize_output false it returns the raw mean and variance.
C10_Unnormalization ==
    result.status = "ok" =>
        LET a == y_std.val[1]
            b == y_std.val[2]
            c == y_mean.val[1]
            d == y_mean.val[2]
            p == result.raw_mean
            v == result.raw_variance
        IN IF normalize_output
           THEN /\ result.mean[1] * p[2] * b * d
                      = result.mean[2] * (p[1] * a * d + c * p[2] * b)
                /\ result.variance[1] * v[2] * b * b
                      = result.variance[2] * v[1] * a * a
           ELSE /\ result.mean = p
                /\ result.variance = v

C10_Witness ==
    /\ result.status = "ok"
    /\ normalize_output
    /\ y_std.val = RInt(3)
    /\ y_mean.val = RInt(5)
    /\ result.raw_variance = RInt(2)
    /\ result.variance = RInt(18)
    /\ result.raw_mean = RInt(2)
    /\ result.mean = RInt(11)

\* C11: constructing with batch_size < 1 fails and produces no object, so no
\* train call is ever started and no loop iteration ever runs with an invalid
\* batch size.
C11_InvalidBatchSizeNeverTrains ==
    /\ obj = "live" => batch_size >= 1
    /\ obj = "failed" =>
          /\ pc = "idle"
          /\ train_status = "none"
          /\ ~model.exists
          /\ ~is_trained
          /\ sampled_weights = <<>>
          /\ result.status = "none"
    /\ (pc = "loop" \/ train_status # "none") => (obj = "live" /\ batch_size >= 1)

C11_Witness ==
    /\ obj = "failed"
    /\ batch_size = 0
    /\ train_status = "none"

C13_SnapshotsImmutable ==
    [][run' = run =>
          \A i \in DOMAIN sampled_weights :
              /\ i \in DOMAIN sampled_weights'
              /\ sampled_weights'[i] = sampled_weights[i]]_vars

C13_Witness ==
    /\ pc = "idle"
    /\ result.status = "ok"
    /\ Len(sampled_weights) = 2
    /\ sampled_weights[1].updates < sampled_weights[2].updates
    /\ sampled_weights[2].updates = num_steps
    /\ result.arity = 2
    /\ model.weights = sampled_weights[2]

\* C14: a snapshot recorded at step index s holds the parameters after the
\* sampler update of that same iteration, that is after s + 1 sampler steps
\* of the running train call.
C14_SnapshotAfterSamplerStep ==
    \A i \in DOMAIN sampled_weights :
        /\ i \in DOMAIN recorded_steps
        /\ sampled_weights[i].updates = recorded_steps[i] + 1
        /\ sampled_weights[i].run = run

C14_Witness ==
    /\ pc = "loop"
    /\ step = 3
    /\ recorded_steps = <<2>>
    /\ sampled_weights = <<[run |-> run, updates |-> 3]>>
    /\ model.weights.updates = 3

\* the phase of the trainer; normalization happens inside the step that enters
\* the loop
Phase ==
    IF pc = "loop"
    THEN IF step <= num_burn_in_steps THEN "BurnIn" ELSE "Sampling"
    ELSE IF is_trained THEN "Trained" ELSE "Idle"

PhaseOrder ==
    { <<"Idle", "BurnIn">>, <<"Trained", "BurnIn">>, <<"BurnIn", "Sampling">>,
      <<"BurnIn", "Trained">>, <<"Sampling", "Trained">> }

\* C15: a train call moves through the phases only forwards (from Idle, or
\* from Trained for a later call, through normalization into BurnIn, then
\* Sampling, then Trained); is_trained is false until a train call has run
\* all its num_steps iterations, and it changes only in the step that leaves
\* the loop after the last iteration, never before or during the loop and
\* never in a call that raises.
C15_TrainedOnlyAfterLoop ==
    /\ [](/\ is_trained => (obj = "live" /\ model.exists /\ x_mean.set /\ y_mean.set)
          /\ train_status = "none" => ~is_trained)
    /\ [][/\ is_trained' # is_trained =>
                /\ ~is_trained
                /\ pc = "loop"
                /\ step = num_steps
                /\ model.weights.updates = num_steps
                /\ pc' = "idle"
                /\ train_status' = "ok"
          /\ train_status' \in {"ValueError", "UnboundLocalError"}
                => is_trained' = is_trained
          /\ Phase' # Phase => <<Phase, Phase'>> \in PhaseOrder]_vars

C15_Witness ==
    /\ Phase = "Trained"
    /\ train_status = "ok"
    /\ run = 1
    /\ num_steps = 4
    /\ num_burn_in_steps = 1
    /\ step = 4
    /\ sampled_weights # <<>>

\* a step of a predict call: between calls, on the same object, with no train
\* call started
PredictStep ==
    /\ obj = "live" /\ obj' = "live"
    /\ pc = "idle" /\ pc' = "idle"
    /\ run' = run
    /\ result'.status # "none"

\* C16: a predict call, returning or raising, with or without
\* return_individual_predictions, leaves the normalization statistics, the
\* snapshot store and is_trained as they were; of the trainer's state only the
\* live model parameters may change.
C16_PredictFrame ==
    [][PredictStep =>
          /\ UNCHANGED <<x_mean, x_std, y_mean, y_std>>
          /\ UNCHANGED <<sampled_weights, is_trained>>
          /\ UNCHANGED <<normalize_input, normalize_output, batch_size>>
          /\ model'.exists = model.exists /\ model'.in_dim = model.in_dim]_vars

C16_Witness ==
    /\ pc = "idle"
    /\ result.status = "ok"
    /\ result.arity = 3
    /\ result.x_dim # x_mean.d
    /\ Len(sampled_weights) = 1
    /\ model.weights.updates # num_steps

\* C17: with return_individual_predictions predict returns one mean per stored
\* snapshot, in the order of the store, each un-normalized with (y_mean,
\* y_std) when normalize_output is set, and their arithmetic mean is the
\* returned ensemble mean; without the flag no individual predictions are
\* returned.
C17_IndividualPredictions ==
    (pc = "idle" /\ result.status = "ok") =>
        LET n == Len(sampled_weights)
            a == y_std.val[1]
            b == y_std.val[2]
            c == y_mean.val[1]
            d == y_mean.val[2]
            total == RSum(result.individual)
        IN IF result.arity = 3
           THEN /\ Len(result.individual) = n
                /\ \A i \in 1..n :
                      LET m == NetOut(sampled_weights[i])[1]
                          r == result.individual[i]
                      IN IF normalize_output
                         THEN r[1] * m[2] * b * d = r[2] * (m[1] * a * d + c * m[2] * b)
                         ELSE r = m
                /\ total[1] * result.mean[2] = n * result.mean[1] * total[2]
           ELSE result.arity = 2 /\ result.individual = <<>>

C17_Witness ==
    /\ pc = "idle"
    /\ result.status = "ok"
    /\ result.arity = 3
    /\ normalize_output
    /\ y_std.val = RInt(3)
    /\ Len(result.individual) = 2
    /\ result.individual[1] # result.individual[2]

\* C18 as stated, second half: after every predict call on a trained model
\* with a non-empty store the live parameters equal the last snapshot.
C18_LiveIsLastAfterEveryPredict ==
    (pc = "idle" /\ result.status # "none" /\ is_trained /\ sampled_weights # <<>>)
        => model.weights = sampled_weights[Len(sampled_weights)]

\* C18 (amended): on a trained model with a non-empty store, what predict
\* returns is determined by the store alone, whatever parameters the model
\* held at entry (n * mean = sum of the snapshots' means, n^2 * variance =
\* n * sum of (mean_i^2 + exp(logvar_i)) - (sum of means)^2, before
\* un-normalization), and after every predict call that returns the live
\* parameters equal the last snapshot.
C18_ResultFromStoreAlone ==
    (pc = "idle" /\ result.status = "ok") =>
        LET n == Len(sampled_weights)
            out == [i \in 1..n |-> NetOut(sampled_weights[i])]
            s1 == ISum([i \in 1..n |-> out[i][1][1]], n)
            t2 == ISum([i \in 1..n |->
                          2 * out[i][1][1] * out[i][1][1] + Pow2(out[i][2] + 1)], n)
        IN /\ n >= 1
           /\ is_trained
           /\ model.weights = sampled_weights[n]
           /\ result.raw_mean[1] * n = s1 * result.raw_mean[2]
           /\ result.raw_variance[1] * 2 * n * n
                 = (n * t2 - 2 * s1 * s1) * result.raw_variance[2]

C18_Witness ==
    /\ pc = "idle"
    /\ result.status = "ok"
    /\ Len(sampled_weights) = 1
    /\ model.weights = sampled_weights[1]
    /\ sampled_weights[1].updates < num_steps
    /\ NetOut(sampled_weights[1]) # NetOut([run |-> run, updates |-> num_steps])

\* C19: is_trained never goes back to false: once a train call has completed
\* it stays true in every later state, while a later train call runs with the
\* store cleared and after a later train call that raised.
C19_TrainedIsMonotone ==
    [][is_trained => is_trained']_vars

C19_Witness ==
    /\ pc = "idle"
    /\ is_trained
    /\ train_status = "ValueError"
    /\ sampled_weights = <<>>
    /\ model.weights.updates >= 2

====
